---- MODULE Spec2Model ----
(***************************************************************************)
(* Gossip (src/gossip.py): a portable conversation-context container, its  *)
(* structured (dict / JSON) encoding, its human-readable rendering, file   *)
(* attachment and extraction, and the "create" command of the CLI.         *)
(*                                                                         *)
(* Python values are modelled as follows.                                  *)
(*   - an Optional[...] argument is a sequence of length <= 1: None is    *)
(*     << >>, the value v is <<v>>;                                        *)
(*   - a dict is a function whose DOMAIN is the set of keys present (the   *)
(*     documents of the model hold no JSON null);                          *)
(*   - a list object lives in the heap and is referred to by its address,  *)
(*     so that two owners of the same list see each other's appends;       *)
(*   - bytes are sequences of 0..255, base64 text is a sequence of symbol  *)
(*     indices into the base64 alphabet (0..63), Pad for "=" and Junk for  *)
(*     a character outside the alphabet;                                   *)
(*   - key points and open questions are sequences of one-character        *)
(*     strings, because rendering works on their characters.               *)
(***************************************************************************)
EXTENDS Integers, Sequences, FiniteSets

VARIABLES
    heap,   \* the list objects: heap[a] is the attachment list at address a
    conts,  \* the Gossip instances created so far, in creation order
    docs,   \* the in-memory structured documents (dicts) created so far
    prov,   \* prov[d]: the instance docs[d] was encoded from, 0 if parsed from text
    last,   \* the last call made: its name, arguments, exception and result
    cli     \* the create command: its arguments, position and output

vars == <<heap, conts, docs, prov, last, cli>>

-----------------------------------------------------------------------------
(* Bounds of the model.                                                    *)

\* containers alive at once
MaxConts == 2
\* in-memory structured documents alive at once
MaxDocs == 2
\* attachments that add_file has room to add: the entries held by all the
\* lists together, beyond which add_file is not called
MaxFiles == 2
\* file paths given to the create command
MaxPaths == 3

-----------------------------------------------------------------------------
(* Python's None, and a present value.                                     *)

None == << >>

Some(v) == <<v>>

\* the expression  o or d  for an optional string: None and "" are falsy
OrStr(o, d) == IF o # None /\ o[1] # "" THEN o[1] ELSE d

\* the expression  o or d  for an optional list: None and [] are falsy
OrList(o, d) == IF o # None /\ Len(o[1]) > 0 THEN o[1] ELSE d

\* dict.get(key, default)
Get(d, key, default) == IF key \in DOMAIN d THEN d[key] ELSE default

-----------------------------------------------------------------------------
(* base64 (the standard alphabet, "=" padding).                            *)

Pad == 64

Junk == 65

RECURSIVE b64encode(_)
b64encode(b) ==
    IF Len(b) = 0 THEN << >>
    ELSE IF Len(b) = 1 THEN
        << b[1] \div 4, (b[1] % 4) * 16, Pad, Pad >>
    ELSE IF Len(b) = 2 THEN
        << b[1] \div 4, (b[1] % 4) * 16 + (b[2] \div 16), (b[2] % 16) * 4, Pad >>
    ELSE
        << b[1] \div 4, (b[1] % 4) * 16 + (b[2] \div 16),
           (b[2] % 16) * 4 + (b[3] \div 64), b[3] % 64 >>
        \o b64encode(SubSeq(b, 4, Len(b)))

\* binascii.a2b_base64 in its default (non-strict) mode: characters outside
\* the alphabet are skipped, a completed pad sequence ends the parse, and a
\* quad left open at the end of the input is an error (None).
RECURSIVE a2b_base64(_, _, _, _, _, _)
a2b_base64(s, i, quad_pos, pads, leftchar, out) ==
    IF i > Len(s) THEN (IF quad_pos # 0 THEN None ELSE Some(out))
    ELSE IF s[i] = Pad THEN
        IF quad_pos >= 2 /\ quad_pos + pads + 1 >= 4 THEN Some(out)
        ELSE a2b_base64(s, i + 1, quad_pos,
                        IF quad_pos >= 2 THEN pads + 1 ELSE pads, leftchar, out)
    ELSE IF s[i] = Junk THEN a2b_base64(s, i + 1, quad_pos, pads, leftchar, out)
    ELSE IF quad_pos = 0 THEN a2b_base64(s, i + 1, 1, 0, s[i], out)
    ELSE IF quad_pos = 1 THEN
        a2b_base64(s, i + 1, 2, 0, s[i] % 16,
                   Append(out, leftchar * 4 + (s[i] \div 16)))
    ELSE IF quad_pos = 2 THEN
        a2b_base64(s, i + 1, 3, 0, s[i] % 4,
                   Append(out, leftchar * 16 + (s[i] \div 4)))
    ELSE a2b_base64(s, i + 1, 0, 0, 0, Append(out, leftchar * 64 + s[i]))

\* base64.b64decode(s): the bytes, or None when binascii.Error is raised
b64decode(s) == a2b_base64(s, 1, 0, 0, 0, << >>)

-----------------------------------------------------------------------------
(* The filesystem the attach and extract operations work on.               *)

\* the paths handed to add_file: two share the base name "notes.txt", and
\* there is no file at "missing.txt"
Paths == {"notes.txt", "old/notes.txt", "img/logo.png", "missing.txt"}

\* the path an extraction may be directed to; extractions write into a
\* directory of their own, so no path add_file reads is written by them
OutPath == "out.bin"

\* the files at the paths: the bytes, or None where there is no file
FS ==
    [p \in Paths |->
        CASE p = "notes.txt"     -> Some(<<77, 97>>)
          [] p = "old/notes.txt" -> Some(<<77>>)
          [] p = "img/logo.png" -> Some(<<0, 255, 16, 1>>)
          [] OTHER              -> None]

\* Path(filepath).name
PathName(p) ==
    CASE p = "img/logo.png"  -> "logo.png"
      [] p = "old/notes.txt" -> "notes.txt"
      [] OTHER               -> p

\* Path(filepath).suffix
PathSuffix(p) ==
    CASE p \in {"notes.txt", "old/notes.txt", "missing.txt"} -> ".txt"
      [] p = "img/logo.png" -> ".png"
      [] OTHER -> ""

\* the rows of mime_map the paths above reach, and its default
get_mime_type(extension) ==
    CASE extension = ".txt" -> "text/plain"
      [] extension = ".png" -> "image/png"
      [] OTHER              -> "application/octet-stream"

-----------------------------------------------------------------------------
(* The Gossip class.                                                       *)

VERSION == "1.0"

\* uuid4().hex[:12]: the n-th identifier generated is fresh
FreshIds == << "gossip_0a1b2c3d4e5f", "gossip_1b2c3d4e5f6a",
               "gossip_2c3d4e5f6a7b", "gossip_3d4e5f6a7b8c" >>

\* datetime.utcnow().isoformat() + "Z"
Now == "2026-01-01T00:00:00Z"

\* __init__ as it would be with the open questions defaulted from the key
\* points argument
Gossip_init_mixed(a, fresh, addr) ==
    [ gossip_id    |-> OrStr(a.gossip_id, fresh),
      created      |-> OrStr(a.created, Now),
      metadata     |-> [ topic      |-> a.topic,
                         source_ai  |-> IF a.source_ai = None THEN "unknown"
                                        ELSE a.source_ai[1],
                         created_by |-> "Gossip v1.0" ],
      context      |-> [ summary        |-> a.summary,
                         key_points     |-> OrList(a.key_points, << >>),
                         open_questions |-> OrList(a.key_points, << >>) ],
      files        |-> addr,
      continuation |-> OrStr(a.continuation, "") ]

\* Gossip.__init__: a holds the arguments, the optional ones as optionals
\* (source_ai is None when the caller leaves it to its default), fresh is
\* the identifier uuid4 would give, addr the address of the new list
Gossip_init(a, fresh, addr) ==
    [ gossip_id    |-> OrStr(a.gossip_id, fresh),
      created      |-> OrStr(a.created, Now),
      metadata     |-> [ topic      |-> a.topic,
                         source_ai  |-> IF a.source_ai = None THEN "unknown"
                                        ELSE a.source_ai[1],
                         created_by |-> "Gossip v1.0" ],
      context      |-> [ summary        |-> a.summary,
                         key_points     |-> OrList(a.key_points, << >>),
                         open_questions |-> OrList(a.open_questions, << >>) ],
      files        |-> addr,
      continuation |-> OrStr(a.continuation, "") ]

\* the dict add_file appends for the file at path p holding data
FileEntry(p, data) ==
    [ name     |-> PathName(p),
      type     |-> get_mime_type(PathSuffix(p)),
      size     |-> Len(data),
      encoding |-> "base64",
      data     |-> b64encode(data) ]

\* add_file as it would be if it kept one entry per name
add_file_dedup(files, p) ==
    IF FS[p] = None
    THEN [ err |-> "FileNotFoundError", files |-> files ]
    ELSE IF \E i \in 1..Len(files) : files[i].name = PathName(p)
    THEN [ err |-> "", files |-> files ]
    ELSE [ err |-> "", files |-> Append(files, FileEntry(p, FS[p][1])) ]

\* Gossip.add_file on the list files: the exception raised ("" if none)
\* and the list afterwards
add_file(files, p) ==
    IF FS[p] = None
    THEN [ err |-> "FileNotFoundError", files |-> files ]
    ELSE [ err |-> "", files |-> Append(files, FileEntry(p, FS[p][1])) ]

\* Gossip.to_dict: the dict holds the instance's own metadata and context
\* dicts and its own files list (the address, not a copy)
to_dict(g) ==
    [ version      |-> VERSION,
      gossip_id    |-> g.gossip_id,
      created      |-> g.created,
      metadata     |-> g.metadata,
      context      |-> g.context,
      files        |-> g.files,
      continuation |-> g.continuation ]

\* the first required key that data lacks, in the order from_dict reads
\* them; "" when none is missing
MissingKey(data) ==
    IF "metadata" \notin DOMAIN data THEN "metadata"
    ELSE IF "topic" \notin DOMAIN data.metadata THEN "topic"
    ELSE IF "context" \notin DOMAIN data THEN "context"
    ELSE IF "summary" \notin DOMAIN data.context THEN "summary"
    ELSE IF "gossip_id" \notin DOMAIN data THEN "gossip_id"
    ELSE IF "created" \notin DOMAIN data THEN "created"
    ELSE ""

\* from_dict as it would be without its line  gossip.files = data.get(...)
from_dict_no_files(data, fresh, addr) ==
    IF MissingKey(data) # ""
    THEN [ err |-> "KeyError", key |-> MissingKey(data) ]
    ELSE [ err |-> "",
           gossip |->
             Gossip_init(
                 [ topic          |-> data.metadata.topic,
                   summary        |-> data.context.summary,
                   source_ai      |-> Some(Get(data.metadata, "source_ai", "unknown")),
                   key_points     |-> Some(Get(data.context, "key_points", << >>)),
                   open_questions |-> Some(Get(data.context, "open_questions", << >>)),
                   continuation   |-> Some(Get(data, "continuation", "")),
                   gossip_id      |-> Some(data.gossip_id),
                   created        |-> Some(data.created) ],
                 fresh, addr) ]

\* Gossip.from_dict: KeyError when a subscripted key is missing; otherwise
\* the instance, whose files is the document's own list when it has one
\* and the new list at addr when it has none
from_dict(data, fresh, addr) ==
    IF MissingKey(data) # ""
    THEN [ err |-> "KeyError", key |-> MissingKey(data) ]
    ELSE [ err |-> "",
           gossip |->
             [ Gossip_init(
                 [ topic          |-> data.metadata.topic,
                   summary        |-> data.context.summary,
                   source_ai      |-> Some(Get(data.metadata, "source_ai", "unknown")),
                   key_points     |-> Some(Get(data.context, "key_points", << >>)),
                   open_questions |-> Some(Get(data.context, "open_questions", << >>)),
                   continuation   |-> Some(Get(data, "continuation", "")),
                   gossip_id      |-> Some(data.gossip_id),
                   created        |-> Some(data.created) ],
                 fresh, addr)
               EXCEPT !.files = Get(data, "files", addr) ] ]

\* Gossip.extract_file on the list files: the first entry named filename is
\* decoded; binascii.Error when its data is not base64, ValueError when no
\* entry has the name
RECURSIVE extract_scan(_, _, _)
extract_scan(files, filename, i) ==
    IF i > Len(files) THEN [ err |-> "ValueError", data |-> << >> ]
    ELSE IF files[i].name = filename THEN
        IF b64decode(files[i].data) = None
        THEN [ err |-> "binascii.Error", data |-> << >> ]
        ELSE [ err |-> "", data |-> b64decode(files[i].data)[1] ]
    ELSE extract_scan(files, filename, i + 1)

\* extract_file as it would be if a later entry of the name replaced an
\* earlier one: the scan from the end of the list
RECURSIVE extract_scan_back(_, _, _)
extract_scan_back(files, filename, i) ==
    IF i < 1 THEN [ err |-> "ValueError", data |-> << >> ]
    ELSE IF files[i].name = filename THEN
        IF b64decode(files[i].data) = None
        THEN [ err |-> "binascii.Error", data |-> << >> ]
        ELSE [ err |-> "", data |-> b64decode(files[i].data)[1] ]
    ELSE extract_scan_back(files, filename, i - 1)

extract_file_last(files, filename) == extract_scan_back(files, filename, Len(files))

extract_file(files, filename) == extract_scan(files, filename, 1)

-----------------------------------------------------------------------------
(* Rendering. A line of text is the sequence of the strings it is made     *)
(* of, in order; the rendering is the sequence of its lines, which         *)
(* to_human_readable joins with newlines.                                  *)

\* s.lstrip(chars): s without its longest prefix of characters in chars
RECURSIVE lstrip(_, _)
lstrip(s, chars) ==
    IF Len(s) > 0 /\ s[1] \in chars THEN lstrip(Tail(s), chars) ELSE s

\* the decimal digits of a natural number
RECURSIVE Digits(_)
Digits(n) ==
    IF n < 10
    THEN << <<"0", "1", "2", "3", "4", "5", "6", "7", "8", "9">>[n + 1] >>
    ELSE Digits(n \div 10) \o Digits(n % 10)

\* f"{size / 1024:.1f}": size / 1024 is exact in binary floating point, and
\* the format rounds it to the nearest tenth, a tie to the even tenth
FormatKB(size) ==
    LET q == (size * 10) \div 1024
        r == (size * 10) % 1024
        t == IF r > 512 \/ (r = 512 /\ q % 2 = 1) THEN q + 1 ELSE q
    IN  Digits(t \div 10) \o <<".">> \o Digits(t % 10)

\* datetime.fromisoformat(created.replace("Z", "+00:00")).strftime(
\* "%Y-%m-%d %H:%M:%S UTC"), on the timestamps of the model
FormatCreated(created) ==
    CASE created = "2026-01-01T00:00:00Z" -> "2026-01-01 00:00:00 UTC"
      [] created = "2025-06-01T12:00:00Z" -> "2025-06-01 12:00:00 UTC"

\* the rule of 63 box-drawing characters (U+2550)
Rule == << "===============================================================" >>

Blank == << "" >>

\* one bullet per string of points; "* " stands for the bullet character
\* (U+2022) and the space after it
Bullets(points) ==
    [ i \in 1..Len(points) |-> <<"* ">> \o lstrip(points[i], {"-", " "}) ]

FileLines(files) ==
    [ i \in 1..Len(files) |->
        << "* ", files[i].name, " (", files[i].type, ", " >>
        \o FormatKB(files[i].size) \o << " KB)" >> ]

HeaderKeyPoints == << "## KEY POINTS & DECISIONS" >>

HeaderQuestions == << "## OPEN QUESTIONS / NEXT STEPS" >>

HeaderFiles == << "## ATTACHED FILES" >>

HeaderContinue == << "## CONTINUE FROM HERE:" >>

HeaderInstructions == << "## INSTRUCTIONS FOR AI SYSTEMS:" >>

SourceLine(source_ai) ==
    << "from another AI system (", source_ai, ") that should continue" >>

\* the lines up to and including the open questions
RenderHead(g) ==
    << << "# GOSSIP [ID: ", g.gossip_id, "]" >>,
       Rule,
       << "AI Conversation Context Transfer File" >>,
       << "Created by Gossip - Universal AI Integration Layer" >>,
       Rule,
       Blank,
       << "**Topic:** ", g.metadata.topic >>,
       << "**Source AI:** ", g.metadata.source_ai >>,
       << "**Created:** ", FormatCreated(g.created) >>,
       Blank,
       Rule,
       << "## CONVERSATION CONTEXT" >>,
       Blank,
       << g.context.summary >>,
       Blank,
       Rule,
       HeaderKeyPoints,
       Blank >>
    \o Bullets(g.context.key_points)
    \o << Blank, Rule, HeaderQuestions, Blank >>
    \o Bullets(g.context.open_questions)

RenderFiles(files) ==
    << Blank, Rule, HeaderFiles, Blank >>
    \o FileLines(files)
    \o << Blank, << "[Files are base64-encoded in the full Gossip JSON format]" >> >>

RenderContinuation(g) ==
    << Blank, Rule, HeaderContinue, Blank, << g.continuation >> >>

RenderInstructions(g) ==
    << Blank,
       Rule,
       HeaderInstructions,
       Blank,
       << "This is a Gossip file - a universal context transfer format for AI systems." >>,
       << "Please read this entire context carefully. This represents a conversation" >>,
       SourceLine(g.metadata.source_ai),
       << "seamlessly in your system." >>,
       Blank,
       << "Treat this as if you've been having this conversation yourself. Reference" >>,
       << "the key points and decisions made, acknowledge the open questions, and pick" >>,
       << "up from the 'Continue from here' section." >>,
       Blank,
       << "If files are referenced but not accessible in your system, acknowledge them" >>,
       << "and proceed based on the context provided." >>,
       Blank,
       << "Gossip enables AI interoperability. Honor the context and maintain continuity." >>,
       Rule >>

\* to_human_readable as it would be if it listed the attachments whether
\* or not there are any
to_human_readable_always_files(g, files) ==
    RenderHead(g)
    \o RenderFiles(files)
    \o (IF g.continuation # "" THEN RenderContinuation(g) ELSE << >>)
    \o RenderInstructions(g)

\* Gossip.to_human_readable of the instance g, whose list holds files
to_human_readable(g, files) ==
    RenderHead(g)
    \o (IF Len(files) > 0 THEN RenderFiles(files) ELSE << >>)
    \o (IF g.continuation # "" THEN RenderContinuation(g) ELSE << >>)
    \o RenderInstructions(g)

-----------------------------------------------------------------------------
(* Inputs: constructor arguments and the texts handed to load.             *)

Args(topic, summary, source_ai, key_points, open_questions, continuation, gossip_id, created) ==
    [ topic |-> topic, summary |-> summary, source_ai |-> source_ai,
      key_points |-> key_points, open_questions |-> open_questions,
      continuation |-> continuation, gossip_id |-> gossip_id,
      created |-> created ]

\* strings of characters, as key points and open questions hold them
KeyPointA == << "-", " ", "D", "X" >>

KeyPointB == << "D", "-", "Y" >>

QuestionA == << "-", "Q" >>

GivenId == "gossip_feedfacecafe"

GivenCreated == "2025-06-01T12:00:00Z"

\* Gossip(topic, summary) alone
ArgsMinimal(topic, summary) ==
    Args(topic, summary, None, None, None, None, None, None)

ArgsFull ==
    Args("Rust port", "We compared two designs", Some("claude"),
         Some(<<KeyPointA, KeyPointB>>), Some(<<QuestionA>>), Some("go on"),
         Some(GivenId), Some(GivenCreated))

\* the argument records the lifecycle specification constructs with
ConstructArgs ==
    { ArgsMinimal("Rust port", "We compared two designs"), ArgsFull }

\* the argument records the constructor specification constructs with:
\* topic or summary empty, and each optional argument passed or not
WideArgs ==
    { Args(ts[1], ts[2], src, kp, oq, co, None, None) :
        ts \in { <<"Rust port", "We compared two designs">>,
                 <<"", "We compared two designs">>,
                 <<"Rust port", "">> },
        src \in { None, Some("claude") },
        kp \in { None, Some(<< >>), Some(<<KeyPointA>>) },
        oq \in { None, Some(<<QuestionA>>) },
        co \in { None, Some(""), Some("go on") } }
    \cup { ArgsFull }

\* strings a key point or an open question may be
BulletTexts ==
    { << "-", " ", "D", "X" >>, << "-", "D", "X" >>, << "D", "X" >>,
      << "-", "-", "D", "X" >>, << " ", "D", "X" >>,
      << "-", " ", "-", " ", "D" >>, << "D", "-", "X" >>, << "-" >> }

\* the argument records the rendering specification constructs with
RenderArgs ==
    { Args("Rust port", "We compared two designs", None,
           Some(<<s, KeyPointB>>), Some(<<QuestionA, s>>), None, None, None) :
        s \in BulletTexts }
    \cup { ArgsMinimal("Rust port", "We compared two designs"), ArgsFull }

\* the dict d without the key k
Without(d, k) == [ x \in DOMAIN d \ {k} |-> d[x] ]

Entry(name, type, size, data) ==
    [ name |-> name, type |-> type, size |-> size, encoding |-> "base64",
      data |-> data ]

\* two attachments of the same name and different payloads
TwinFiles ==
    << Entry("notes.txt", "text/plain", 1, b64encode(<<88>>)),
       Entry("notes.txt", "text/plain", 2, b64encode(<<89, 90>>)) >>

\* an attachment whose size disagrees with its payload, and one whose data
\* is not base64 ("TQ=": incorrect padding)
OddFiles ==
    << Entry("logo.png", "image/png", 5, b64encode(<<1, 2>>)),
       Entry("notes.txt", "text/plain", 1, <<19, 16, Pad>>) >>

\* a structured document with every key, as JSON text holds it (the files
\* inline)
FullDoc(files) ==
    [ version      |-> VERSION,
      gossip_id    |-> GivenId,
      created      |-> GivenCreated,
      metadata     |-> [ topic |-> "Rust port", source_ai |-> "claude",
                         created_by |-> "Gossip v1.0" ],
      context      |-> [ summary |-> "We compared two designs",
                         key_points |-> <<KeyPointA>>,
                         open_questions |-> <<QuestionA>> ],
      files        |-> files,
      continuation |-> "go on" ]

\* a document with the required keys only
BareDoc ==
    [ gossip_id |-> GivenId,
      created   |-> GivenCreated,
      metadata  |-> [ topic |-> "Rust port" ],
      context   |-> [ summary |-> "We compared two designs" ] ]

NotJson == [ json |-> FALSE ]

JsonText(d) == [ json |-> TRUE, value |-> d ]

\* the texts of the files handed to load and json.loads
Texts ==
    { NotJson,
      JsonText(FullDoc(TwinFiles)),
      JsonText(FullDoc(OddFiles)),
      JsonText(BareDoc),
      JsonText([ BareDoc EXCEPT !.metadata = Without(@, "topic") ]),
      JsonText([ BareDoc EXCEPT !.context = Without(@, "summary") ]),
      JsonText(Without(BareDoc, "gossip_id")),
      JsonText(Without(BareDoc, "created")) }

\* the names extract_file is asked for
Names == {"notes.txt", "logo.png", "missing.txt"}

\* json.loads(text) for JSON text: the dict, its files list (if any) a new
\* list object at addr
loads(text, addr) ==
    IF "files" \in DOMAIN text.value
    THEN [ text.value EXCEPT !.files = addr ]
    ELSE text.value

\* what json.loads adds to the heap
loads_heap(text, h) ==
    IF "files" \in DOMAIN text.value THEN Append(h, text.value.files) ELSE h

-----------------------------------------------------------------------------
(* The state after start-up, and the library's operations.                 *)

\* the number of entries the lists at addresses 1..n of h hold together
RECURSIVE TotalFiles(_, _)
TotalFiles(h, n) == IF n = 0 THEN 0 ELSE Len(h[n]) + TotalFiles(h, n - 1)

Call(op, err, arg, ret) == [ op |-> op, err |-> err, arg |-> arg, ret |-> ret ]

CliIdle == [ pc |-> "idle" ]

Init ==
    /\ heap = << >>
    /\ conts = << >>
    /\ docs = << >>
    /\ prov = << >>
    /\ last = Call("start", "", << >>, << >>)
    /\ cli = CliIdle

\* g = Gossip(...)
Construct(a) ==
    /\ Len(conts) < MaxConts
    /\ conts' = Append(conts, Gossip_init(a, FreshIds[Len(conts) + 1], Len(heap) + 1))
    /\ heap' = Append(heap, << >>)
    /\ last' = Call("init", "", a, Len(conts) + 1)
    /\ UNCHANGED <<docs, prov, cli>>

\* conts[c].add_file(p)
AddFile(c, p) ==
    /\ c \in 1..Len(conts)
    /\ TotalFiles(heap, Len(heap)) < MaxFiles
    /\ LET r == add_file(heap[conts[c].files], p) IN
        /\ heap' = [ heap EXCEPT ![conts[c].files] = r.files ]
        /\ last' = Call("add_file", r.err, <<c, p>>, << >>)
    /\ UNCHANGED <<conts, docs, prov, cli>>

\* d = conts[c].to_dict()
ToDict(c) ==
    /\ c \in 1..Len(conts)
    /\ Len(docs) < MaxDocs
    /\ docs' = Append(docs, to_dict(conts[c]))
    /\ prov' = Append(prov, c)
    /\ last' = Call("to_dict", "", c, Len(docs) + 1)
    /\ UNCHANGED <<heap, conts, cli>>

\* d = json.loads(text)
Loads(text) ==
    /\ Len(docs) < MaxDocs
    /\ IF text.json
       THEN /\ docs' = Append(docs, loads(text, Len(heap) + 1))
            /\ prov' = Append(prov, 0)
            /\ heap' = loads_heap(text, heap)
            /\ last' = Call("loads", "", text, Len(docs) + 1)
       ELSE /\ last' = Call("loads", "JSONDecodeError", text, << >>)
            /\ UNCHANGED <<heap, docs, prov>>
    /\ UNCHANGED <<conts, cli>>

\* g = Gossip.from_dict(docs[d])
FromDict(d) ==
    /\ d \in 1..Len(docs)
    /\ Len(conts) < MaxConts
    /\ LET r == from_dict(docs[d], FreshIds[Len(conts) + 1], Len(heap) + 1) IN
        IF r.err = ""
        THEN /\ conts' = Append(conts, r.gossip)
             /\ heap' = IF r.gossip.files = Len(heap) + 1
                        THEN Append(heap, << >>) ELSE heap
             /\ last' = Call("from_dict", "", d, Len(conts) + 1)
        ELSE /\ last' = Call("from_dict", r.err, d, << >>)
             /\ UNCHANGED <<heap, conts>>
    /\ UNCHANGED <<docs, prov, cli>>

\* load as it would be if its except clause caught every exception
load_catch_all(text, fresh, addr) ==
    IF ~text.json
    THEN [ err |-> "ValueError" ]
    ELSE IF from_dict(loads(text, addr), fresh, addr).err # ""
    THEN [ err |-> "ValueError" ]
    ELSE from_dict(loads(text, addr), fresh, addr)

\* Gossip.load on a file holding text: the exception raised ("" if none)
\* and, if none, the instance; the document parsed is a local of load
load(text, fresh, addr) ==
    IF ~text.json
    THEN [ err |-> "ValueError" ]
    ELSE from_dict(loads(text, addr), fresh, addr)

\* g = Gossip.load(path of a file holding text)
Load(text) ==
    /\ Len(conts) < MaxConts
    /\ LET r == load(text, FreshIds[Len(conts) + 1], Len(heap) + 1) IN
        IF r.err = ""
        THEN /\ conts' = Append(conts, r.gossip)
             /\ heap' = IF "files" \in DOMAIN text.value
                        THEN loads_heap(text, heap) ELSE Append(heap, << >>)
             /\ last' = Call("load", "", text, Len(conts) + 1)
        ELSE /\ last' = Call("load", r.err, text, << >>)
             /\ UNCHANGED <<heap, conts>>
    /\ UNCHANGED <<docs, prov, cli>>

\* conts[c].extract_file(filename, output_path): the bytes are written to
\* output_path, or to filename when output_path is None; ret is the path
\* returned and the bytes written there
ExtractFile(c, filename, output_path) ==
    /\ c \in 1..Len(conts)
    /\ LET r == extract_file(heap[conts[c].files], filename)
           out == IF output_path = None THEN filename ELSE output_path[1]
       IN  last' = Call("extract_file", r.err, <<c, filename, output_path>>,
                        IF r.err = "" THEN <<out, r.data>> ELSE << >>)
    /\ UNCHANGED <<heap, conts, docs, prov, cli>>

\* text = conts[c].to_human_readable()
Render(c) ==
    /\ c \in 1..Len(conts)
    /\ last' = Call("to_human_readable", "", c,
                    to_human_readable(conts[c], heap[conts[c].files]))
    /\ UNCHANGED <<heap, conts, docs, prov, cli>>

-----------------------------------------------------------------------------
(* Saving, and the create command of the command line.                     *)

\* json.dumps(g.to_dict()): the document as text, its files inline
to_json(g, files) == JsonText([ to_dict(g) EXCEPT !.files = files ])

\* a path is its stem and its suffix; Path.with_suffix
WithSuffix(path, suffix) == << path[1], suffix >>

\* Gossip.save(filepath, format): the file written, as its path and content
save(g, files, filepath, format) ==
    IF format = "json"
    THEN [ path    |-> IF filepath[2] \notin {".gossip", ".json"}
                       THEN WithSuffix(filepath, ".gossip") ELSE filepath,
           content |-> to_json(g, files) ]
    ELSE [ path    |-> IF filepath[2] # ".txt"
                       THEN WithSuffix(filepath, ".txt") ELSE filepath,
           content |-> to_human_readable(g, files) ]

\* s.strip(), of spaces
RECURSIVE rstrip(_, _)
rstrip(s, chars) ==
    IF Len(s) > 0 /\ s[Len(s)] \in chars
    THEN rstrip(SubSeq(s, 1, Len(s) - 1), chars) ELSE s

strip(s) == rstrip(lstrip(s, {" "}), {" "})

\* s.split(","), cur being the piece read so far
RECURSIVE split_comma(_, _)
split_comma(s, cur) ==
    IF Len(s) = 0 THEN << cur >>
    ELSE IF s[1] = "," THEN << cur >> \o split_comma(Tail(s), << >>)
    ELSE split_comma(Tail(s), Append(cur, s[1]))

\* [x.strip() for x in arg.split(",")] if arg else []
comma_list(arg) ==
    IF arg = None \/ arg = Some(<< >>) THEN << >>
    ELSE LET parts == split_comma(arg[1], << >>) IN
         [ i \in 1..Len(parts) |-> strip(parts[i]) ]

\* the arguments of the constructor call in main
create_args(a) ==
    Args(a.topic, a.summary, Some(a.source_ai), Some(comma_list(a.keypoints)),
         Some(comma_list(a.questions)), a.continuation, None, None)

\* the command lines of create: --files is absent or names 1..MaxPaths paths
FileLists == UNION { [ 1..n -> Paths ] : n \in 1..MaxPaths }

CreateCommands ==
    { [ topic |-> "Rust port", summary |-> "We compared two designs",
        source_ai |-> "unknown", keypoints |-> kp, questions |-> None,
        continuation |-> None, files |-> fl, output |-> out, format |-> fmt ] :
        kp \in { None, Some(<< "a", ",", " ", "-", "b" >>) },
        fl \in { None } \cup { Some(l) : l \in FileLists },
        out \in { << "ctx", "" >>, << "ctx", ".json" >> },
        fmt \in { "json", "txt" } }

\* the loop as it would be without its try: the exception ends the command
on_attach_abort(c) == [ c EXCEPT !.pc = "failed" ]

\* what the loop does when add_file raises: the except clause reports the
\* file and the loop goes on to the next path
on_attach_error(c) == [ c EXCEPT !.i = @ + 1 ]

\* python gossip.py create ...: the instance is built
CreateStart(a) ==
    /\ cli.pc = "idle"
    /\ conts = << >>
    /\ conts' = << Gossip_init(create_args(a), FreshIds[1], Len(heap) + 1) >>
    /\ heap' = Append(heap, << >>)
    /\ last' = Call("init", "", create_args(a), 1)
    /\ cli' = [ pc |-> "attach", args |-> a, i |-> 1,
                paths |-> IF a.files = None THEN << >> ELSE a.files[1] ]
    /\ UNCHANGED <<docs, prov>>

\* one turn of the loop over args.files
CreateAttach ==
    /\ cli.pc = "attach"
    /\ cli.i <= Len(cli.paths)
    /\ LET r == add_file(heap[conts[1].files], cli.paths[cli.i]) IN
        /\ heap' = [ heap EXCEPT ![conts[1].files] = r.files ]
        /\ last' = Call("add_file", r.err, <<1, cli.paths[cli.i]>>, << >>)
        /\ cli' = IF r.err = "" THEN [ cli EXCEPT !.i = @ + 1 ]
                  ELSE on_attach_error(cli)
    /\ UNCHANGED <<conts, docs, prov>>

\* gossip.save(args.output, format=args.format), after the loop
CreateSave ==
    /\ cli.pc = "attach"
    /\ cli.i > Len(cli.paths)
    /\ LET w == save(conts[1], heap[conts[1].files], cli.args.output, cli.args.format) IN
        /\ cli' = [ pc |-> "done", args |-> cli.args, i |-> cli.i,
                    paths |-> cli.paths, saved |-> w ]
        /\ last' = Call("save", "", <<1, cli.args.output, cli.args.format>>, w.path)
    /\ UNCHANGED <<heap, conts, docs, prov>>

NextCreate ==
    \/ \E a \in CreateCommands : CreateStart(a)
    \/ CreateAttach
    \/ CreateSave

SpecCreate == Init /\ [][NextCreate]_vars

\* the life of instances built by the constructor: attach, encode, decode
Next ==
    \/ \E a \in ConstructArgs : Construct(a)
    \/ \E c \in 1..MaxConts, p \in Paths : AddFile(c, p)
    \/ \E c \in 1..MaxConts : ToDict(c)
    \/ Loads(JsonText(FullDoc(TwinFiles)))
    \/ \E d \in 1..MaxDocs : FromDict(d)

Spec == Init /\ [][Next]_vars

\* the constructor alone, on every kind of argument
NextConstruct == \E a \in WideArgs : Construct(a)

SpecConstruct == Init /\ [][NextConstruct]_vars

\* rendering instances with and without attachments and continuation
NextRender ==
    \/ \E a \in RenderArgs : Construct(a)
    \/ \E c \in 1..MaxConts : AddFile(c, "img/logo.png")
    \/ \E c \in 1..MaxConts : Render(c)

SpecRender == Init /\ [][NextRender]_vars

\* decoding texts from outside, attaching to and extracting from the result
NextDecode ==
    \/ \E t \in Texts : Load(t)
    \/ \E c \in 1..MaxConts, p \in Paths : AddFile(c, p)
    \/ \E c \in 1..MaxConts, n \in Names, o \in {None, Some(OutPath)} :
          ExtractFile(c, n, o)

SpecDecode == Init /\ [][NextDecode]_vars

-----------------------------------------------------------------------------
(* Properties of the life of instances (Spec).                             *)

\* an instance field for field, its attachments by value
Value(g) == [ g EXCEPT !.files = heap[g.files] ]

\* the call just made decoded a document that to_dict encoded
RoundTripped ==
    /\ last.op = "from_dict"
    /\ last.err = ""
    /\ prov[last.arg] # 0

\* C1: decoding what to_dict encoded of an instance gives an instance equal
\* to it field for field: the same gossip_id, created, topic, source_ai,
\* summary, key points, open questions and continuation, and the same
\* attachments in the same order with the same payloads.
C1_RoundTripIdentity ==
    RoundTripped => Value(conts[last.ret]) = Value(conts[prov[last.arg]])

\* a round trip of an instance built with every argument and two attachments
C1_Witness ==
    /\ RoundTripped
    /\ Len(heap[conts[last.ret].files]) = 2
    /\ Len(conts[last.ret].context.key_points) = 2
    /\ conts[last.ret].gossip_id = GivenId

\* C5: a successful add_file leaves its instance's list as it was, followed
\* by the one new entry for the file attached, whether or not an entry of
\* that name is already there; a failed one, and every other call, leaves
\* every list as it was.
C5_AppendOnly ==
    [][ /\ Len(heap') >= Len(heap)
        /\ \A a \in 1..Len(heap) :
             IF /\ last'.op = "add_file"
                /\ last'.err = ""
                /\ a = conts[last'.arg[1]].files
             THEN heap'[a] = Append(heap[a], FileEntry(last'.arg[2], FS[last'.arg[2]][1]))
             ELSE heap'[a] = heap[a] ]_vars

\* the same path attached twice in a row: two entries of one name
C5_Witness ==
    /\ last.op = "add_file"
    /\ last.err = ""
    /\ LET l == heap[conts[last.arg[1]].files] IN
        /\ Len(l) = 2
        /\ l[1] = l[2]

\* the step is a successful add_file on the instance c
Attached(c) ==
    /\ last'.op = "add_file"
    /\ last'.err = ""
    /\ last'.arg[1] = c
    /\ heap' # heap

\* the other instances keep their attachments over the step
OthersKept(c) ==
    \A o \in 1..Len(conts) :
        o # c => heap'[conts'[o].files] = heap[conts[o].files]

\* the documents, those to_dict returned and those from_dict was given
\* alike, keep their files over the step
DocsKept ==
    \A d \in 1..Len(docs) :
        "files" \in DOMAIN docs[d] => heap'[docs'[d].files] = heap[docs[d].files]

\* C11: add_file on an instance changes the attachments of that instance
\* only: every other instance (one decoded from the same document too),
\* every document handed to from_dict and every document to_dict returned
\* before are as they were.
C11_NoSharedState ==
    [][ \A c \in 1..Len(conts) : Attached(c) => (OthersKept(c) /\ DocsKept) ]_vars

\* its parts: the other instances, and the documents
C11_OtherInstancesKept ==
    [][ \A c \in 1..Len(conts) : Attached(c) => OthersKept(c) ]_vars

C11_DocumentsKept ==
    [][ \A c \in 1..Len(conts) : Attached(c) => DocsKept ]_vars

-----------------------------------------------------------------------------
(* Properties of decoding and extraction (SpecDecode).                     *)

\* the indices of the entries of files named name
Matches(files, name) == { i \in 1..Len(files) : files[i].name = name }

\* the least element of a non-empty set of numbers
Least(S) == CHOOSE i \in S : \A j \in S : i <= j

\* C3: extract_file(name) writes the decoded bytes of the lowest-index
\* attachment named exactly name, never those of a later entry of that
\* name (if that entry's data is not base64 the call raises and writes
\* nothing); when no attachment has the name it raises its not-found error
\* (ValueError) and writes nothing.
C3_ExtractFirstMatch ==
    last.op = "extract_file" =>
        LET files == heap[conts[last.arg[1]].files]
            found == Matches(files, last.arg[2])
        IN  IF found = {}
            THEN last.err = "ValueError" /\ last.ret = << >>
            ELSE LET bytes == b64decode(files[Least(found)].data) IN
                 IF bytes = None
                 THEN last.err # "" /\ last.ret = << >>
                 ELSE last.err = "" /\ last.ret[2] = bytes[1]

\* an extraction by a name that two attachments of different payloads bear
C3_Witness ==
    /\ last.op = "extract_file"
    /\ last.err = ""
    /\ LET files == heap[conts[last.arg[1]].files] IN
        /\ Len(files) = 2
        /\ files[1].name = last.arg[2]
        /\ files[2].name = last.arg[2]
        /\ files[1].data # files[2].data
        /\ last.ret[2] = b64decode(files[1].data)[1]

\* C4: in every instance, every attachment's size is the number of bytes
\* its data decodes to.
C4_SizeInvariant ==
    \A c \in 1..Len(conts) :
        \A i \in 1..Len(heap[conts[c].files]) :
            LET e == heap[conts[c].files][i] IN
                /\ b64decode(e.data) # None
                /\ e.size = Len(b64decode(e.data)[1])

\* the document lacks one of the keys from_dict subscripts
LacksRequired(d) ==
    \/ "metadata" \notin DOMAIN d
    \/ "context" \notin DOMAIN d
    \/ "gossip_id" \notin DOMAIN d
    \/ "created" \notin DOMAIN d
    \/ "topic" \notin DOMAIN d.metadata
    \/ "summary" \notin DOMAIN d.context

\* C6: load of JSON text that lacks metadata.topic, context.summary,
\* gossip_id or created raises KeyError and yields no instance; load of
\* text that is not JSON raises ValueError, a different exception.
C6_MissingFieldError ==
    [][ last'.op = "load" =>
          /\ (last'.arg.json /\ LacksRequired(last'.arg.value)) =>
                (last'.err = "KeyError" /\ last'.ret = << >> /\ conts' = conts)
          /\ ~last'.arg.json =>
                (last'.err = "ValueError" /\ last'.ret = << >> /\ conts' = conts) ]_vars

\* a load of a document with every required key but gossip_id
C6_Witness ==
    /\ last.op = "load"
    /\ last.err = "KeyError"
    /\ last.arg.json
    /\ DOMAIN last.arg.value = DOMAIN BareDoc \ {"gossip_id"}

-----------------------------------------------------------------------------
(* Properties of the constructor (SpecConstruct).                          *)

\* C2: the constructor raises a validation error, and makes no instance,
\* when topic is "" or summary is "".
C2_EmptyRejected ==
    (last.op = "init" /\ (last.arg.topic = "" \/ last.arg.summary = "")) =>
        (last.err # "" /\ last.ret = << >>)

\* C7: Gossip(topic, summary) with both non-empty has source_ai "unknown",
\* no key points, no open questions, continuation "", no attachments and a
\* non-empty gossip_id; and key_points, open_questions and continuation
\* passed as None are each stored as that same empty value.
C7_Defaults ==
    (last.op = "init" /\ last.err = "") =>
        LET a == last.arg
            g == conts[last.ret]
        IN  /\ (a = ArgsMinimal(a.topic, a.summary) /\ a.topic # "" /\ a.summary # "") =>
                  /\ g.metadata.source_ai = "unknown"
                  /\ g.context.key_points = << >>
                  /\ g.context.open_questions = << >>
                  /\ g.continuation = ""
                  /\ heap[g.files] = << >>
                  /\ g.gossip_id # ""
            /\ a.key_points = None => g.context.key_points = << >>
            /\ a.open_questions = None => g.context.open_questions = << >>
            /\ a.continuation = None => g.continuation = ""

\* a construction with key points given and open questions left out
C7_Witness ==
    /\ last.op = "init"
    /\ last.err = ""
    /\ last.arg.key_points = Some(<<KeyPointA>>)
    /\ last.arg.open_questions = None
    /\ last.arg.continuation = None
    /\ conts[last.ret].context.open_questions = << >>
    /\ conts[last.ret].continuation = ""

-----------------------------------------------------------------------------
(* Properties of the rendering (SpecRender).                               *)

\* the indices of the lines of text equal to line
Where(text, line) == { i \in 1..Len(text) : text[i] = line }

\* every line equal to a is before every line equal to b
Before(text, a, b) == \A i \in Where(text, a), j \in Where(text, b) : i < j

\* C8: the rendering has the "ATTACHED FILES" section exactly when the
\* instance has attachments and the "CONTINUE FROM HERE" section exactly
\* when its continuation is not empty; it always ends with the instructions
\* block, which names source_ai; and the sections present come once each in
\* the order key points, open questions, attached files, continuation,
\* instructions.
C8_Sections ==
    last.op = "to_human_readable" =>
        LET g == conts[last.arg]
            text == last.ret
        IN  /\ (Where(text, HeaderFiles) # {}) <=> (Len(heap[g.files]) > 0)
            /\ (Where(text, HeaderContinue) # {}) <=> (g.continuation # "")
            /\ Cardinality(Where(text, HeaderKeyPoints)) = 1
            /\ Cardinality(Where(text, HeaderQuestions)) = 1
            /\ Cardinality(Where(text, HeaderFiles)) <= 1
            /\ Cardinality(Where(text, HeaderContinue)) <= 1
            /\ Cardinality(Where(text, HeaderInstructions)) = 1
            /\ Before(text, HeaderInstructions, SourceLine(g.metadata.source_ai))
            /\ Where(text, SourceLine(g.metadata.source_ai)) # {}
            /\ Before(text, HeaderKeyPoints, HeaderQuestions)
            /\ Before(text, HeaderQuestions, HeaderFiles)
            /\ Before(text, HeaderQuestions, HeaderContinue)
            /\ Before(text, HeaderFiles, HeaderContinue)
            /\ Before(text, HeaderQuestions, HeaderInstructions)
            /\ Before(text, HeaderFiles, HeaderInstructions)
            /\ Before(text, HeaderContinue, HeaderInstructions)

\* a rendering of an instance with no attachment and a continuation
C8_Witness ==
    /\ last.op = "to_human_readable"
    /\ heap[conts[last.arg].files] = << >>
    /\ conts[last.arg].continuation = "go on"
    /\ Where(last.ret, HeaderFiles) = {}
    /\ Where(last.ret, HeaderContinue) # {}

\* s without its leading "- ", or else without its leading "-"
StripPrefix(s) ==
    IF Len(s) >= 2 /\ s[1] = "-" /\ s[2] = " " THEN SubSeq(s, 3, Len(s))
    ELSE IF Len(s) >= 1 /\ s[1] = "-" THEN Tail(s)
    ELSE s

\* the lines of text after the header line and the blank line under it, as
\* many as there are points
Section(text, header, points) ==
    LET h == CHOOSE i \in Where(text, header) : TRUE IN
        SubSeq(text, h + 2, h + 1 + Len(points))

\* C9: each key point and each open question is rendered as one bullet, in
\* order, whose text is the string without its leading "- " or "-" and is
\* otherwise the string unchanged.
C9_BulletPrefix ==
    last.op = "to_human_readable" =>
        LET g == conts[last.arg]
            text == last.ret
            kp == g.context.key_points
            oq == g.context.open_questions
        IN  /\ Section(text, HeaderKeyPoints, kp)
                 = [ i \in 1..Len(kp) |-> <<"* ">> \o StripPrefix(kp[i]) ]
            /\ Section(text, HeaderQuestions, oq)
                 = [ i \in 1..Len(oq) |-> <<"* ">> \o StripPrefix(oq[i]) ]

-----------------------------------------------------------------------------
(* Properties of the create command (SpecCreate).                          *)

\* the entries of the files among paths that can be attached, in order
Attachable(paths) ==
    LET there == SelectSeq(paths, LAMBDA p : FS[p] # None) IN
        [ i \in 1..Len(there) |-> FileEntry(there[i], FS[there[i]][1]) ]

\* C10: a file that cannot be attached never stops the create command: it
\* goes on until the instance is saved, and the instance saved holds
\* exactly the files that could be attached, in the order given.
C10_CreateSkipsFailures ==
    /\ cli.pc \in {"idle", "done"} \/ ENABLED (CreateAttach \/ CreateSave)
    /\ cli.pc = "done" =>
          /\ heap[conts[1].files] = Attachable(cli.paths)
          /\ cli.args.format = "json" =>
                cli.saved.content.value.files = Attachable(cli.paths)

\* a finished create whose first path is of no file and whose later paths
\* are of files
C10_Witness ==
    /\ cli.pc = "done"
    /\ cli.paths = << "missing.txt", "notes.txt", "img/logo.png" >>
    /\ cli.args.format = "json"
    /\ Len(cli.saved.content.value.files) = 2

====
